---- MODULE Spec2Model ----
(***************************************************************************)
(* The solar-system viewer: the body catalog and its scale conversions     *)
(* (src/src/space.rs) and the per-frame systems of src/src/main.rs: orbit  *)
(* propagation, selection through deferred commands, and camera targeting. *)
(*                                                                         *)
(* Numbers.  f32 values of the catalog are decimal floating-point numbers  *)
(* m * 10^e with a normalised mantissa of four digits.  Render   *)
(* space positions are integer vectors.  Angles are counted in steps of a  *)
(* quarter turn, the rotations about Y that map the integer lattice onto   *)
(* itself, so rotating a position is exact and "equal within tolerance"    *)
(* reads as "equal".                                                       *)
(***************************************************************************)
EXTENDS Integers, Sequences, FiniteSets, TLC

\* ------------------------------------------------------------------ f32
\* Mantissas are kept below this limit (four decimal digits).
MantissaLimit == 10000

RECURSIVE Pow10(_)
Pow10(n) == IF n <= 0 THEN 1 ELSE 10 * Pow10(n - 1)

RECURSIVE Norm(_, _)
Norm(m, e) ==
    IF m = 0 THEN [m |-> 0, e |-> 0]
    ELSE IF m >= MantissaLimit THEN Norm(m \div 10, e + 1)
    ELSE IF m * 10 < MantissaLimit THEN Norm(m * 10, e - 1)
    ELSE [m |-> m, e |-> e]

\* The f32 literal m * 10^e.
F(m, e) == Norm(m, e)

FMul(a, b) == Norm(a.m * b.m, a.e + b.e)

FDiv(a, b) == Norm((a.m * 100000) \div b.m, a.e - b.e - 5)

FAdd(a, b) ==
    LET hi == IF a.e >= b.e THEN a ELSE b
        lo == IF a.e >= b.e THEN b ELSE a
        d  == hi.e - lo.e
    IN  IF lo.m = 0 THEN hi
        ELSE IF hi.m = 0 THEN lo
        ELSE Norm(hi.m * 10 + (IF d > 5 THEN 0 ELSE (lo.m * 10) \div Pow10(d)), hi.e - 1)

RECURSIVE ISqrtIn(_, _, _)
ISqrtIn(n, lo, hi) ==
    IF lo >= hi THEN lo
    ELSE LET mid == (lo + hi + 1) \div 2
         IN  IF mid * mid <= n THEN ISqrtIn(n, mid, hi) ELSE ISqrtIn(n, lo, mid - 1)

\* f32::sqrt
FSqrt(a) ==
    IF a.m = 0 THEN a
    ELSE LET odd == a.e % 2 # 0
             m   == (IF odd THEN a.m * 10 ELSE a.m) * 10000
             e   == (IF odd THEN a.e - 1 ELSE a.e) - 4
         IN  Norm(ISqrtIn(m, 0, 31622), e \div 2)

FPositive(a) == a.m > 0

\* The integer part of a non-negative f32.
ToInt(a) == IF a.e >= 0 THEN a.m * Pow10(a.e) ELSE a.m \div Pow10(-a.e)

\* ------------------------------------------------------------ catalog
\* enum SpaceObject, in declaration order (enum_iterator::all).
AllObjects ==
    << "Sun", "Mercury", "Venus", "Earth", "EarthMoon", "Mars", "Phobos", "Deimos",
       "Jupiter", "Metis", "Adrastea", "Amalthea", "Thebe", "Io",
       "Saturn", "Enceladus", "Mimas", "Tethys", "Dione", "Rhea", "Titan",
       "Uranus", "Miranda", "Ariel", "Umbriel", "Titania", "Oberon",
       "Neptune", "Triton", "Nereid", "Proteus", "Larissa", "Halimede",
       "Pluto", "Charon", "Nix", "Hydra", "Kerberos", "Styx" >>

SpaceObject == { AllObjects[i] : i \in 1..Len(AllObjects) }

Sun == "Sun"

\* const ASTRO_UNIT: f32 = 149_597_870.7
ASTRO_UNIT == F(1495978707, -1)

\* const GRAV: f32 = 6.674_08e-11
GRAV == F(667408, -16)

\* SpaceObject::radius, in kilometers.
radiusTable ==
    "Sun" :> F(6957, 2) @@ "Mercury" :> F(24397, -1) @@ "Venus" :> F(60518, -1) @@
    "Earth" :> F(6371, 0) @@ "EarthMoon" :> F(17374, -1) @@ "Mars" :> F(33895, -1) @@
    "Phobos" :> F(111, -1) @@ "Deimos" :> F(62, -1) @@ "Jupiter" :> F(69911, 0) @@
    "Metis" :> F(215, -1) @@ "Adrastea" :> F(82, -1) @@ "Amalthea" :> F(835, -1) @@
    "Thebe" :> F(493, -1) @@ "Io" :> F(18216, -1) @@ "Saturn" :> F(58232, 0) @@
    "Enceladus" :> F(2521, -1) @@ "Mimas" :> F(1982, -1) @@ "Tethys" :> F(533, 0) @@
    "Dione" :> F(5614, -1) @@ "Rhea" :> F(7643, -1) @@ "Titan" :> F(25755, -1) @@
    "Uranus" :> F(25362, 0) @@ "Miranda" :> F(2408, -1) @@ "Ariel" :> F(5789, -1) @@
    "Umbriel" :> F(5847, -1) @@ "Titania" :> F(7889, -1) @@ "Oberon" :> F(7614, -1) @@
    "Neptune" :> F(24622, 0) @@ "Triton" :> F(13534, -1) @@ "Nereid" :> F(17, 1) @@
    "Proteus" :> F(21, 1) @@ "Larissa" :> F(97, 0) @@ "Halimede" :> F(31, 0) @@
    "Pluto" :> F(11883, -1) @@ "Charon" :> F(606, 0) @@ "Nix" :> F(23, 0) @@
    "Hydra" :> F(3, 1) @@ "Kerberos" :> F(12, 0) @@ "Styx" :> F(1, 1)

\* SpaceObject::distance, in astronomical units.
distanceTable ==
    "Sun" :> F(0, 0) @@ "Mercury" :> F(387, -3) @@ "Venus" :> F(723, -3) @@
    "Earth" :> F(1, 0) @@ "EarthMoon" :> F(257, -5) @@ "Mars" :> F(1524, -3) @@
    "Phobos" :> F(39, -6) @@ "Deimos" :> F(157, -6) @@ "Jupiter" :> F(5203, -3) @@
    "Metis" :> F(128, -5) @@ "Adrastea" :> F(15, -4) @@ "Amalthea" :> F(32, -4) @@
    "Thebe" :> F(422, -5) @@ "Io" :> F(282, -5) @@ "Saturn" :> F(9537, -3) @@
    "Enceladus" :> F(317, -5) @@ "Mimas" :> F(196, -4) @@ "Tethys" :> F(384, -4) @@
    "Dione" :> F(563, -4) @@ "Rhea" :> F(126, -3) @@ "Titan" :> F(847, -4) @@
    "Uranus" :> F(19191, -3) @@ "Miranda" :> F(129, -5) @@ "Ariel" :> F(195, -5) @@
    "Umbriel" :> F(266, -5) @@ "Titania" :> F(817, -5) @@ "Oberon" :> F(127, -4) @@
    "Neptune" :> F(30069, -3) @@ "Triton" :> F(237, -5) @@ "Nereid" :> F(36, -3) @@
    "Proteus" :> F(77, -4) @@ "Larissa" :> F(73, -5) @@ "Halimede" :> F(379, -4) @@
    "Pluto" :> F(39482, -3) @@ "Charon" :> F(157, -5) @@ "Nix" :> F(2, -3) @@
    "Hydra" :> F(45, -4) @@ "Kerberos" :> F(347, -5) @@ "Styx" :> F(78, -4)

\* SpaceObject::mass, in kilograms.
massTable ==
    "Sun" :> F(19891, 26) @@ "Mercury" :> F(33011, 19) @@ "Venus" :> F(48675, 20) @@
    "Earth" :> F(597237, 19) @@ "EarthMoon" :> F(7342, 19) @@ "Mars" :> F(64171, 19) @@
    "Phobos" :> F(10659, 12) @@ "Deimos" :> F(14762, 11) @@ "Jupiter" :> F(18982, 23) @@
    "Metis" :> F(12, 16) @@ "Adrastea" :> F(22, 17) @@ "Amalthea" :> F(208, 16) @@
    "Thebe" :> F(43, 18) @@ "Io" :> F(8931938, 16) @@ "Saturn" :> F(56834, 22) @@
    "Enceladus" :> F(108, 18) @@ "Mimas" :> F(375, 17) @@ "Tethys" :> F(617449, 15) @@
    "Dione" :> F(1095452, 15) @@ "Rhea" :> F(2306518, 15) @@ "Titan" :> F(13452, 19) @@
    "Uranus" :> F(868103, 20) @@ "Miranda" :> F(659, 17) @@ "Ariel" :> F(1353, 18) @@
    "Umbriel" :> F(1172, 18) @@ "Titania" :> F(349, 19) @@ "Oberon" :> F(3014, 18) @@
    "Neptune" :> F(10241, 22) @@ "Triton" :> F(214, 20) @@ "Nereid" :> F(31, 18) @@
    "Proteus" :> F(537, 17) @@ "Larissa" :> F(42, 17) @@ "Halimede" :> F(4, 18) @@
    "Pluto" :> F(1303, 19) @@ "Charon" :> F(1586, 18) @@ "Nix" :> F(45, 15) @@
    "Hydra" :> F(42, 15) @@ "Kerberos" :> F(165, 14) @@ "Styx" :> F(75, 14)

\* SpaceObject::orbits: the Sun orbits itself.
orbitsTable ==
    "Sun" :> "Sun" @@ "Mercury" :> "Sun" @@ "Venus" :> "Sun" @@
    "Earth" :> "Sun" @@ "EarthMoon" :> "Earth" @@ "Mars" :> "Sun" @@
    "Phobos" :> "Mars" @@ "Deimos" :> "Mars" @@ "Jupiter" :> "Sun" @@
    "Metis" :> "Jupiter" @@ "Adrastea" :> "Jupiter" @@ "Amalthea" :> "Jupiter" @@
    "Thebe" :> "Jupiter" @@ "Io" :> "Jupiter" @@ "Saturn" :> "Sun" @@
    "Enceladus" :> "Saturn" @@ "Mimas" :> "Saturn" @@ "Tethys" :> "Saturn" @@
    "Dione" :> "Saturn" @@ "Rhea" :> "Saturn" @@ "Titan" :> "Saturn" @@
    "Uranus" :> "Sun" @@ "Miranda" :> "Uranus" @@ "Ariel" :> "Uranus" @@
    "Umbriel" :> "Uranus" @@ "Titania" :> "Uranus" @@ "Oberon" :> "Uranus" @@
    "Neptune" :> "Sun" @@ "Triton" :> "Neptune" @@ "Nereid" :> "Neptune" @@
    "Proteus" :> "Neptune" @@ "Larissa" :> "Neptune" @@ "Halimede" :> "Neptune" @@
    "Pluto" :> "Sun" @@ "Charon" :> "Pluto" @@ "Nix" :> "Pluto" @@
    "Hydra" :> "Pluto" @@ "Kerberos" :> "Pluto" @@ "Styx" :> "Pluto"


radius(obj) == radiusTable[obj]

distance(obj) == distanceTable[obj]

mass(obj) == massTable[obj]

\* A catalog in which one moon orbits another moon.
orbits_nested(obj) == IF obj = "Deimos" THEN "Phobos" ELSE orbitsTable[obj]

orbits(obj) == orbitsTable[obj]

\* orbital_velocity: the divisor, distance * parent radius * ASTRO_UNIT + radius.
distance_from(obj) ==
    FAdd(FMul(FMul(distance(obj), radius(orbits(obj))), ASTRO_UNIT), radius(obj))

\* An orbital_velocity without the early return for the Sun.
orbital_velocity_unguarded(obj) ==
    FDiv(FSqrt(FDiv(FMul(GRAV, mass(orbits(obj))), distance_from(obj))), F(10000, 0))

\* SpaceObject::orbital_velocity: the Sun returns before the division.
orbital_velocity(obj) ==
    IF obj = Sun THEN F(0, 0)
    ELSE FDiv(FSqrt(FDiv(FMul(GRAV, mass(orbits(obj))), distance_from(obj))),
              F(10000, 0))

\* SpaceObject::scaled_radius
scaled_radius(obj) ==
    IF obj = Sun THEN FDiv(radius(obj), F(100, 0))
    ELSE FDiv(radius(obj), FDiv(radius(Sun), F(100000, 0)))

\* SpaceObject::scaled_distance
scaled_distance(obj) == FMul(distance(obj), FDiv(radius(Sun), F(10, 0)))

\* ------------------------------------------------------------ vectors
\* glam Vec3 on the integer lattice.
Vec3(x, y, z) == << x, y, z >>

ZERO == Vec3(0, 0, 0)

VAdd(u, v) == Vec3(u[1] + v[1], u[2] + v[2], u[3] + v[3])

VSub(u, v) == Vec3(u[1] - v[1], u[2] - v[2], u[3] - v[3])

VNeg(u) == Vec3(-u[1], -u[2], -u[3])

Abs(n) == IF n < 0 THEN -n ELSE n

\* The squared length of v, exact: a number c2 * 10^8 + c1 * 10^4 + c0 held
\* as << c2, c1, c0 >> with c1, c0 < 10^4, so that no product overflows.
LengthSquared(v) ==
    LET hi(n) == Abs(n) \div 10000
        lo(n) == Abs(n) % 10000
        c0 == lo(v[1]) * lo(v[1]) + lo(v[2]) * lo(v[2]) + lo(v[3]) * lo(v[3])
        c1 == 2 * (hi(v[1]) * lo(v[1]) + hi(v[2]) * lo(v[2]) + hi(v[3]) * lo(v[3]))
                + c0 \div 10000
        c2 == hi(v[1]) * hi(v[1]) + hi(v[2]) * hi(v[2]) + hi(v[3]) * hi(v[3])
                + c1 \div 10000
    IN  << c2, c1 % 10000, c0 % 10000 >>

\* |u - v| = d
DistanceIs(u, v, d) == LengthSquared(VSub(u, v)) = LengthSquared(Vec3(d, 0, 0))

\* The function f with its values computed once and kept as a table.
Tabulated(f) == f @@ f

\* A full turn is four angle steps.
FullTurn == 4

\* The rate that turns one angle step per tick of elapsed time.
AngleStep == F(1, -2)

\* orbital_velocity in angle steps per tick, for every body.
AngularRate ==
    Tabulated([obj \in SpaceObject |-> ToInt(FDiv(orbital_velocity(obj), AngleStep))])

\* The angle planet.orbital_velocity() * time.delta_seconds(), in angle steps.
Angle(obj, delta) == AngularRate[obj] * delta

\* Quat::from_rotation_y: the rotation about Y, reduced to one turn.
from_rotation_y(angle) == angle % FullTurn

\* rotation * v for a rotation about Y:
\* x' = x cos a + z sin a, z' = -x sin a + z cos a.
RECURSIVE QuatMul(_, _)
QuatMul(rotation, v) ==
    IF rotation = 0 THEN v ELSE QuatMul(rotation - 1, Vec3(v[3], v[2], -v[1]))

\* Transform::translate_around
translate_around(translation, point, rotation) ==
    VAdd(point, QuatMul(rotation, VSub(translation, point)))

\* scaled_distance and scaled_radius in render units, for every body.
ScaledDistance == Tabulated([obj \in SpaceObject |-> ToInt(scaled_distance(obj))])

\* glam::Vec3::Z * planet.scaled_radius() * 3.0 of lock_to_object, its z.
CamDistance ==
    Tabulated([obj \in SpaceObject |->
                  ToInt(FMul(FMul(F(1, 0), scaled_radius(obj)), F(3, 0)))])

\* Every body spawned at its scaled radius from the origin, the Sun too.
SpawnAtRadius(obj) == Vec3(ToInt(scaled_radius(obj)), 0, 0)

\* Transform::from_xyz(obj.scaled_distance(), 0.0, 0.0) of the object! macro.
SpawnTranslation(obj) == Vec3(ScaledDistance[obj], 0, 0)

\* --------------------------------------------------------------- bounds
\* Elapsed ticks of one frame (time.delta_seconds()).
MaxDelta == 1

\* Frames of one run.
MaxFrames == 3

\* The bodies the user clicks, in the scene or in the list.
Targets == { "Mars", "Phobos" }

\* ---------------------------------------------------------------- state
VARIABLES
    translation,    \* Transform.translation of every body entity
    current,        \* the body entities that carry CurrentObject
    rig,            \* the rig's drivers: Position.position, LookAt.target
    rig_changed,    \* the Rig was written since the rig system last ran
    smooth,         \* the rig's smoothed values: two Smooth stages, LookAt
    camera,         \* the Transform of the camera entity
    time_delta,     \* Time: the elapsed ticks of the frame
    events,         \* Events<PickingEvent>: the JustSelected entities
    clicked,        \* the list buttons that report a click
    just_pressed,   \* Input<KeyCode>: Escape was just pressed
    seen,           \* the CurrentObject entities as the frame began
    before,         \* the translations as the frame began
    stage,          \* "input" while a frame gathers input, "done" after Update
    frames          \* frames begun

vars == << translation, current, rig, rig_changed, smooth, camera, time_delta,
           events, clicked, just_pressed, seen, before, stage, frames >>

\* const DEFAULT_CAMERA_POSITION
DEFAULT_CAMERA_POSITION == Vec3(0, 100, 100000)

\* Transform::from_xyz(DEFAULT_CAMERA_POSITION).looking_at(Vec3::ZERO, Vec3::Y);
\* a camera rotation is held as the point looked at.
OverviewPose == [translation |-> DEFAULT_CAMERA_POSITION, looking_at |-> ZERO]

\* ----------------------------------------------------------- planet_orbit
\* The filter of the first loop: the Sun orbits itself and passes.
main_planets == { obj \in SpaceObject : orbits(obj) = Sun }

OrbitRotation(obj, delta) == from_rotation_y(Angle(obj, delta))

\* The first loop: bodies whose parent is the Sun turn around the origin.
Pass1(t, delta) ==
    [obj \in SpaceObject |->
        IF obj \in main_planets
        THEN translate_around(t[obj], ZERO, OrbitRotation(obj, delta))
        ELSE t[obj]]

\* A second loop that turns the bodies of the first loop around the origin
\* once more.
Pass2Again(t, delta) == Pass1(t, delta)

\* The second loop visits every body but the Sun whose parent was pushed in
\* the first.  Its tuple is (*t, p, Some(*t)): `transform` and `orbit` are
\* both copies of the body's own Transform, so the loop turns a copy around
\* its own translation and the component keeps its value.
Pass2(t, delta) ==
    [obj \in SpaceObject |->
        IF obj # Sun /\ orbits(obj) \in main_planets
        THEN LET transform == t[obj]
                 orbit     == t[obj]
                 moved     == translate_around(transform, orbit,
                                               OrbitRotation(obj, delta))
             IN  t[obj]
        ELSE t[obj]]

\* A second loop that stores: a satellite turns around its parent's fresh
\* position and keeps the result.
planet_orbit_stored(t, delta) ==
    LET p1 == Pass1(t, delta)
    IN  [obj \in SpaceObject |->
            IF obj \notin main_planets
            THEN translate_around(p1[obj], p1[orbits(obj)], OrbitRotation(obj, delta))
            ELSE p1[obj]]

planet_orbit(t, delta) == Pass2(Pass1(t, delta), delta)

\* -------------------------------------------------------------- commands
Insert(entity) == [op |-> "insert", entity |-> entity]

Remove(entity) == [op |-> "remove", entity |-> entity]

\* Query::get_single is Ok for exactly one match.
IsSingle(query) == Cardinality(query) = 1

Single(query) == CHOOSE entity \in query : TRUE

\* Commands run against the world when the stage ends, in buffer order:
\* the commands from the i-th on.
RECURSIVE ApplyFrom(_, _, _)
ApplyFrom(commands, i, marked) ==
    IF i > Len(commands) THEN marked
    ELSE ApplyFrom(commands, i + 1,
             IF commands[i].op = "insert" THEN marked \cup { commands[i].entity }
             ELSE marked \ { commands[i].entity })

ApplyCommands(commands, marked) == ApplyFrom(commands, 1, marked)

\* An object_selected that marks each picked entity and unmarks none.
RECURSIVE object_selected_keep(_, _)
object_selected_keep(evs, current_planet) ==
    IF evs = << >> THEN << >>
    ELSE << Insert(Head(evs)) >> \o object_selected_keep(Tail(evs), current_planet)

\* object_selected: every JustSelected event queues a removal for the entity
\* the query holds (the world as the frame began) and an insertion.
RECURSIVE object_selected(_, _)
object_selected(evs, current_planet) ==
    IF evs = << >> THEN << >>
    ELSE (IF IsSingle(current_planet) THEN << Remove(Single(current_planet)) >>
          ELSE << >>)
         \o << Insert(Head(evs)) >>
         \o object_selected(Tail(evs), current_planet)

\* escape
escape(pressed, obj) ==
    IF pressed /\ IsSingle(obj) THEN << Remove(Single(obj)) >> ELSE << >>

\* main_ui: the inner loop of a clicked button, over every entity.
ButtonCommands(obj) ==
    [i \in 1..Len(AllObjects) |->
        IF AllObjects[i] = obj THEN Insert(AllObjects[i]) ELSE Remove(AllObjects[i])]

\* main_ui: the buttons in enumeration order.
RECURSIVE main_ui(_, _)
main_ui(buttons, i) ==
    IF i > Len(AllObjects) THEN << >>
    ELSE IF AllObjects[i] \in buttons
         THEN ButtonCommands(AllObjects[i]) \o main_ui(buttons, i + 1)
         ELSE main_ui(buttons, i + 1)

\* main_ui's buffer for each set of buttons clicked in a frame.
UiCommands == Tabulated([buttons \in SUBSET Targets |-> main_ui(buttons, 1)])

\* The buffers apply in the order of the sorted systems: escape is after
\* object_selected, main_ui is not ordered against either.
Buffers(slot, selected, escaped, ui) ==
    CASE slot = 0 -> ui \o selected \o escaped
      [] slot = 1 -> selected \o ui \o escaped
      [] slot = 2 -> selected \o escaped \o ui

\* ---------------------------------------------------------------- camera
\* TransformationConversion::transform_2_dolly: the translation, component
\* by component, as the rig's position.
transform_2_dolly(t) == [position |-> Vec3(t[1], t[2], t[3])]

\* A camera offset that is not mirrored for bodies at negative z.
CamPosUnmirrored(planet, t) == Vec3(0, 0, CamDistance[planet])

\* lock_to_object: glam::Vec3::Z * planet.scaled_radius() * 3.0, mirrored
\* when the body is at negative z.
CamPos(planet, t) ==
    LET cam_pos == Vec3(0, 0, CamDistance[planet])
    IN  IF t[3] < 0 THEN Vec3(cam_pos[1], cam_pos[2], -cam_pos[3]) ELSE cam_pos

\* A lock_to_object that reads the Transform as it was before planet_orbit.
lock_to_object_stale(planet, t, r) ==
    IF IsSingle(planet)
    THEN LET obj == Single(planet)
         IN  [target   |-> transform_2_dolly(translation[obj]).position,
              position |-> VAdd(transform_2_dolly(translation[obj]).position,
                                CamPos(obj, translation[obj]))]
    ELSE r

\* lock_to_object: with one CurrentObject entity, the drivers follow it.
lock_to_object(planet, t, r) ==
    IF IsSingle(planet)
    THEN LET obj == Single(planet)
         IN  [target   |-> transform_2_dolly(t[obj]).position,
              position |-> VAdd(transform_2_dolly(t[obj]).position, CamPos(obj, t[obj]))]
    ELSE r

\* reset_camera: with no CurrentObject entity the camera Transform is
\* assigned the overview pose.
reset_camera(no_planet, cam) == IF no_planet = {} THEN OverviewPose ELSE cam

\* One tick of exponential smoothing: a share 1/slowness of the way.
Toward(from, to, slowness) ==
    Vec3(from[1] + (to[1] - from[1]) \div slowness,
         from[2] + (to[2] - from[2]) \div slowness,
         from[3] + (to[3] - from[3]) \div slowness)

RECURSIVE ExpSmooth(_, _, _, _)
ExpSmooth(from, to, slowness, delta) ==
    IF delta = 0 THEN from
    ELSE ExpSmooth(Toward(from, to, slowness), to, slowness, delta - 1)

\* Rig::update for the rig built in setup: Position, Smooth::new_position(1.0),
\* Smooth::new_position(2.5), LookAt with tracking_smoothness(1.25).
RigUpdate(r, s, delta) ==
    LET first  == ExpSmooth(s.first, r.position, 2, delta)
        second == ExpSmooth(s.second, first, 4, delta)
        target == ExpSmooth(s.target, r.target, 2, delta)
    IN  [first |-> first, second |-> second, target |-> target]

\* The Transform the rig system writes to the camera.
RigTransform(s) == [translation |-> s.second, looking_at |-> s.target]

\* ----------------------------------------------------------------- frame
\* The schedules of the rig system added by add_dolly_component, which is
\* ordered against no other system: before lock_to_object, between
\* lock_to_object and reset_camera, or after reset_camera.
RigSlots == { "before_lock", "before_reset", "after_reset" }

\* The schedules that can differ in their outcome: without a locked body
\* lock_to_object writes nothing, with one reset_camera writes nothing, and
\* an unchanged Rig keeps the rig system from running at all.
RigSlotsFor(marked, changed) ==
    IF IsSingle(marked) THEN { "before_lock", "after_reset" }
    ELSE IF changed /\ marked = {} THEN { "before_reset", "after_reset" }
    ELSE { "after_reset" }

\* The places of main_ui's buffer among the buffers of object_selected and
\* escape.  The sorted order is fixed for one run of the program; a behaviour
\* here may change it between frames, which adds behaviours and removes none.
UiSlots == 0..2

\* Without a clicked button main_ui's buffer is empty and its place is moot.
UiSlotsFor(buttons) == IF buttons = {} THEN { 0 } ELSE UiSlots

\* The First stage: the clock advances, last frame's events and key and
\* button edges are dropped.
First(dt) ==
    /\ stage = "done"
    /\ frames < MaxFrames
    /\ time_delta' = dt
    /\ events' = << >>
    /\ clicked' = {}
    /\ just_pressed' = FALSE
    /\ stage' = "input"
    /\ seen' = current
    /\ before' = translation
    /\ frames' = frames + 1
    /\ UNCHANGED << translation, current, rig, rig_changed, smooth, camera >>

\* The picking plugin sends SelectionEvent::JustSelected(entity): one event
\* for an entity whose Selection changed in the frame.
JustSelected(entity) ==
    /\ stage = "input"
    /\ \A i \in 1..Len(events) : events[i] # entity
    /\ events' = Append(events, entity)
    /\ UNCHANGED << translation, current, rig, rig_changed, smooth, camera, time_delta,
                    clicked, just_pressed, seen, before, stage, frames >>

\* The user clicks the list button of obj.
ButtonClicked(obj) ==
    /\ stage = "input"
    /\ clicked = {}
    /\ clicked' = { obj }
    /\ UNCHANGED << translation, current, rig, rig_changed, smooth, camera, time_delta,
                    events, just_pressed, seen, before, stage, frames >>

\* The user presses Escape.
EscapePressed ==
    /\ stage = "input"
    /\ ~just_pressed
    /\ just_pressed' = TRUE
    /\ UNCHANGED << translation, current, rig, rig_changed, smooth, camera, time_delta,
                    events, clicked, seen, before, stage, frames >>

\* One run of the Update stage: every system once, then the command buffers.
Update(ui_slot, rig_slot) ==
    LET moved    == planet_orbit(translation, time_delta)
        locked   == IsSingle(current)
        driven   == lock_to_object(current, moved, rig)
        \* the rig system runs when the Rig changed since its last run
        early    == rig_slot = "before_lock"
        runs     == IF early THEN rig_changed ELSE rig_changed \/ locked
        seenRig  == IF early THEN rig ELSE driven
        smoothed == IF runs THEN RigUpdate(seenRig, smooth, time_delta) ELSE smooth
        written  == IF runs THEN RigTransform(smoothed) ELSE camera
        commands == Buffers(ui_slot, object_selected(events, current),
                            escape(just_pressed, current), UiCommands[clicked])
    IN  /\ stage = "input"
        /\ translation' = moved
        /\ rig' = driven
        /\ rig_changed' = (early /\ locked)
        /\ smooth' = smoothed
        /\ camera' = IF rig_slot = "after_reset"
                     THEN (IF runs THEN written ELSE reset_camera(current, camera))
                     ELSE reset_camera(current, written)
        /\ current' = ApplyCommands(commands, current)
        /\ stage' = "done"
        /\ UNCHANGED << time_delta, events, clicked, just_pressed, seen, before, frames >>

\* setup: every body on the +X axis at its scaled distance, no selection, the
\* rig at the overview pose, the camera Transform at its default.
Init ==
    /\ translation = [obj \in SpaceObject |-> SpawnTranslation(obj)]
    /\ current = {}
    /\ rig = [position |-> DEFAULT_CAMERA_POSITION, target |-> ZERO]
    /\ rig_changed = TRUE
    /\ smooth = [first |-> DEFAULT_CAMERA_POSITION, second |-> DEFAULT_CAMERA_POSITION,
                 target |-> ZERO]
    /\ camera = [translation |-> ZERO, looking_at |-> Vec3(0, 0, -1)]
    /\ time_delta = 0
    /\ events = << >>
    /\ clicked = {}
    /\ just_pressed = FALSE
    /\ seen = {}
    /\ before = [obj \in SpaceObject |-> SpawnTranslation(obj)]
    /\ stage = "done"
    /\ frames = 0

\* The Update stage under one of the orders the schedule allows.
UpdateStage ==
    \E ui_slot \in UiSlotsFor(clicked), rig_slot \in RigSlotsFor(current, rig_changed) :
        Update(ui_slot, rig_slot)

Next ==
    \/ \E dt \in 0..MaxDelta : First(dt)
    \/ \E entity \in Targets : JustSelected(entity)
    \/ \E obj \in Targets : ButtonClicked(obj)
    \/ EscapePressed
    \/ UpdateStage

Spec == Init /\ [][Next]_vars

\* ================================================================ claims
Last(s) == s[Len(s)]

\* The frame's Update has run and its command buffers are applied.
Applied == stage = "done" /\ frames > 0

\* C1: in every reachable state at most one body entity carries the
\* CurrentObject marker.
C1_SelectionExclusive == Cardinality(current) <= 1

\* C2: when a frame delivers two or more pick events for distinct bodies, the
\* selection after the frame is exactly the last picked body.
C2_LastPickWins ==
    (Applied /\ Len(events) >= 2) => current = { Last(events) }

\* C3 as stated: a frame with exactly one pick event for b and no Escape,
\* entered Idle or Locked(a), ends Locked(b).
C3_PickLocks ==
    (Applied /\ Len(events) = 1 /\ ~just_pressed /\ Cardinality(seen) <= 1)
        => current = { events[1] }

\* C3 as amended: a frame with exactly one pick event for b, no Escape and
\* no list-button click, entered Idle or Locked(a), ends Locked(b).
C3_PickAloneLocks ==
    (Applied /\ Len(events) = 1 /\ ~just_pressed /\ clicked = {}
        /\ Cardinality(seen) <= 1)
        => current = { events[1] }

\* A frame entered Locked(a) that delivered only a pick of another body b.
C3_Witness ==
    /\ Applied /\ Len(events) = 1 /\ ~just_pressed /\ clicked = {}
    /\ IsSingle(seen) /\ events[1] \notin seen
    /\ current = { events[1] }

\* C4: after a frame in which Escape was just pressed no body is selected; a
\* frame entered Idle stays Idle.
C4_EscapeDeselects == (Applied /\ just_pressed) => current = {}

\* C5: every body but the Sun is at its scaled distance from the body it
\* orbits, in the initial state and after every planet_orbit.
C5_DistanceInvariant ==
    \A obj \in SpaceObject \ { Sun } :
        DistanceIs(translation[obj], translation[orbits(obj)], ScaledDistance[obj])

\* C6: the Sun is at the origin in the initial state and after every
\* planet_orbit.
C6_SunFixed == translation[Sun] = ZERO

\* Planets have turned and the Sun, which passed the first loop's filter
\* with them, is where it was.
C6_Witness ==
    /\ Applied /\ time_delta > 0
    /\ Sun \in main_planets
    /\ translation["Mars"] # SpawnTranslation("Mars")
    /\ translation[Sun] = ZERO

\* C7: the planet_orbit of a frame with elapsed time t1 followed by a
\* planet_orbit with t2 leaves every body where one planet_orbit with
\* t1 + t2 leaves it, from the state the frame began in.
C7_Additive ==
    Applied =>
        \A t2 \in 0..MaxDelta :
            planet_orbit(translation, t2) = planet_orbit(before, time_delta + t2)

\* Two frames with elapsed time have run: the planets stand where one call
\* with the sum of the two times puts them, away from where they started.
C7_Witness ==
    /\ Applied /\ frames = 2 /\ time_delta > 0
    /\ translation = planet_orbit([obj \in SpaceObject |-> SpawnTranslation(obj)], 2)
    /\ translation["Mars"] = Vec3(-ScaledDistance["Mars"], 0, 0)

\* C8: in every frame that no body is selected in, the rig's Position and
\* LookAt drivers and the camera Transform are the overview pose.
C8_IdleOverview ==
    (Applied /\ seen = {}) =>
        /\ rig.position = DEFAULT_CAMERA_POSITION
        /\ rig.target = ZERO
        /\ camera = OverviewPose

\* C9: in every frame that exactly one body b is selected in, the look-at
\* target is b's position and the eye is that position plus
\* (0, 0, s * 3 * scaled_radius(b)), s = -1 when b is at negative z, else 1.
C9_LockedPose ==
    (Applied /\ IsSingle(seen)) =>
        LET b == Single(seen)
            k == ToInt(FMul(scaled_radius(b), F(3, 0)))
            s == IF translation[b][3] < 0 THEN -1 ELSE 1
        IN  /\ rig.target = translation[b]
            /\ rig.position = VAdd(translation[b], Vec3(0, 0, s * k))

\* A locked planet at negative z: the eye is on the far side of it.
C9_Witness ==
    /\ Applied /\ seen = { "Mars" }
    /\ translation["Mars"][3] < 0
    /\ rig.position[3] < translation["Mars"][3]
    /\ rig.target = translation["Mars"]

\* Some coordinate of u is more than one unit from v's: no smoothing step
\* from u lands on v.
Far(u, v) == \E i \in 1..3 : Abs(u[i] - v[i]) > 1

\* C10: no frame after the first takes the camera to the overview pose from
\* a pose that is not next to it.
C10_NoHardSnap ==
    [][(stage = "input" /\ stage' = "done" /\ frames > 1
            /\ Far(camera.translation, DEFAULT_CAMERA_POSITION))
        => camera'.translation # DEFAULT_CAMERA_POSITION]_vars

\* For every catalog body: it orbits the Sun or a body that orbits the Sun,
\* and it orbits itself only if it is the Sun.
WithinDepth2 ==
    Tabulated([b \in SpaceObject |->
        /\ orbits(b) \in SpaceObject
        /\ orbits(b) = Sun \/ orbits(orbits(b)) = Sun
        /\ orbits(b) = b <=> b = Sun])

\* C11: every body of the catalog is spawned, orbits the Sun or a body that
\* orbits the Sun, and the Sun is the only body that orbits itself: the
\* parent relation is a forest of depth at most 2 rooted at the Sun.
C11_HierarchyDepth ==
    /\ DOMAIN translation = SpaceObject
    /\ \A b \in DOMAIN translation : WithinDepth2[b]

\* A moon is selected: its parent is a planet, whose parent is the Sun.
C11_Witness ==
    /\ Applied /\ current = { "Phobos" }
    /\ orbits("Phobos") = "Mars" /\ orbits("Mars") = Sun /\ orbits(Sun) = Sun

\* The spawned bodies other than p itself that orbit p.
MoonsOf(p) == { b \in DOMAIN translation : b # p /\ orbits(b) = p }

\* C12: every body whose parent is the Sun has at most five catalog bodies
\* orbiting it.
C12_MoonCap ==
    \A p \in main_planets \ { Sun } : Cardinality(MoonsOf(p)) <= 5

\* For every catalog body: its distance is 0 only if it is the Sun, and
\* unless it is the Sun the divisor of orbital_velocity and the rate it
\* returns are strictly positive.
DivisionSafe ==
    Tabulated([b \in SpaceObject |->
        /\ distance(b) = F(0, 0) <=> b = Sun
        /\ b = Sun \/ (FPositive(distance_from(b)) /\ FPositive(orbital_velocity(b)))])

\* C13: orbital_velocity(Sun) is 0; the Sun is the only body at distance 0;
\* for every other body the divisor and the returned rate are strictly
\* positive.
C13_VelocityTotal ==
    /\ orbital_velocity(Sun) = F(0, 0)
    /\ \A b \in DOMAIN translation : DivisionSafe[b]

\* A frame with elapsed time turned a planet by its positive rate and left
\* the Sun, whose rate is 0, where it was.
C13_Witness ==
    /\ Applied /\ time_delta > 0
    /\ FPositive(orbital_velocity("Mercury"))
    /\ translation["Mercury"] # before["Mercury"]
    /\ orbital_velocity(Sun) = F(0, 0) /\ translation[Sun] = before[Sun]

\* C14: after a frame's planet_orbit every moon is at its previous position
\* turned by its own angle around its planet's position as the first loop
\* of that call left it.
C14_MoonPivot ==
    Applied =>
        \A b \in SpaceObject \ main_planets :
            translation[b] = translate_around(before[b], translation[orbits(b)],
                                              OrbitRotation(b, time_delta))

\* C15: in the frame that delivers one pick of b and nothing else, entered
\* with no body selected, the camera step already aims the rig at b.
C15_PickSeenSameFrame ==
    (Applied /\ Len(events) = 1 /\ clicked = {} /\ ~just_pressed /\ seen = {}) =>
        /\ rig.target = translation[events[1]]
        /\ rig.position = VAdd(translation[events[1]],
                               CamPos(events[1], translation[events[1]]))

\* C16: in every frame entered with one selected body, under every order of
\* the systems, the look-at target is the body's position after the frame's
\* planet_orbit, and not its position before it when the two differ.
C16_TargetAdvanced ==
    (Applied /\ IsSingle(seen)) =>
        /\ rig.target = planet_orbit(before, time_delta)[Single(seen)]
        /\ (translation[Single(seen)] # before[Single(seen)]
                => rig.target # before[Single(seen)])

\* The locked planet moved in the frame and the target moved with it.
C16_Witness ==
    /\ Applied /\ seen = { "Mars" } /\ time_delta > 0
    /\ translation["Mars"] # before["Mars"]
    /\ rig.target = translation["Mars"]
    /\ rig.target # before["Mars"]

\* C17: after a frame's planet_orbit every body whose parent is the Sun is at
\* its previous position turned once around the origin by its angle.
C17_PrimariesOnce ==
    Applied =>
        \A p \in main_planets \ { Sun } :
            translation[p] = translate_around(before[p], ZERO,
                                              OrbitRotation(p, time_delta))

\* A planet at a quarter turn from where the frame began, where a second
\* turn of the same angle would have put it at a half turn.
C17_Witness ==
    /\ Applied /\ time_delta = 1
    /\ before["Mars"] = Vec3(ScaledDistance["Mars"], 0, 0)
    /\ translation["Mars"] = Vec3(0, 0, -ScaledDistance["Mars"])
    /\ "Mars" \in main_planets
====
